---- MODULE Spec2Model ----
(***************************************************************************)
(* A model of collatepdf.py: the `makepdf` command.  An index file is      *)
(* parsed line by line (parse_index), the command line is applied, an      *)
(* optional cover is copied into the final writer, the index entries are   *)
(* collated into a body writer (collate_pdfs over iter_files), the table   *)
(* of contents is rendered and appended, and the body is appended.         *)
(*                                                                         *)
(* Strings are sequences of one-character strings, so that strip(),        *)
(* startswith(), `in`, slicing and replace() are computed, not assumed.    *)
(* Python's None and the empty string are both the empty sequence (the     *)
(* code only ever tests them with `not x`).  A PDF writer is the sequence  *)
(* of its pages.  A page is a record: its kind, what it shows, its index   *)
(* in the document it comes from, and the overlay merged onto it (a        *)
(* sequence of at most one overlay).  The kind "pad" marks a blank page    *)
(* added by ensure_even_pages; in the PDF it is a blank page like any      *)
(* other, the tag only records where it came from.                         *)
(***************************************************************************)
EXTENDS Integers, Sequences, FiniteSets, TLC

\* ------------------------------------------------------------------ bounds
\* Longest index file, in lines.
MaxLines == 3
\* Largest page count of the existing document.
MaxPages == 2
\* Largest page count of the cover document.
MaxCover == 1

\* ----------------------------------------------------------------- strings
None == <<>>

IsSpace(c) == c \in {" ", "\n", "\t", "\r"}

RECURSIVE lstrip(_)
lstrip(s) == IF s # <<>> /\ IsSpace(Head(s)) THEN lstrip(Tail(s)) ELSE s

RECURSIVE rstrip(_)
rstrip(s) ==
    IF s # <<>> /\ IsSpace(s[Len(s)]) THEN rstrip(SubSeq(s, 1, Len(s) - 1)) ELSE s

\* str.strip()
strip(s) == rstrip(lstrip(s))

\* str.startswith(p)
startswith(s, p) == Len(s) >= Len(p) /\ SubSeq(s, 1, Len(p)) = p

\* p in s
contains(s, p) ==
    \E i \in 1..(Len(s) - Len(p) + 1) : SubSeq(s, i, i + Len(p) - 1) = p

\* str.replace(old, new)
RECURSIVE replace(_, _, _)
replace(s, old, new) ==
    IF s = <<>> THEN <<>>
    ELSE IF startswith(s, old)
         THEN new \o replace(SubSeq(s, Len(old) + 1, Len(s)), old, new)
         ELSE <<Head(s)>> \o replace(Tail(s), old, new)

\* The position of the last "." of s, 0 when there is none.
RECURSIVE LastDot(_)
LastDot(s) ==
    IF s = <<>> THEN 0
    ELSE IF s[Len(s)] = "." THEN Len(s) ELSE LastDot(SubSeq(s, 1, Len(s) - 1))

\* '.'.join(s.split('.')[:-1])
DropExtension(s) == IF LastDot(s) = 0 THEN <<>> ELSE SubSeq(s, 1, LastDot(s) - 1)

\* ------------------------------------------------------- the index's lines
STOP == <<"#", " ", "S", "T", "O", "P">>
BLANK == <<"#", " ", "B", "L", "A", "N", "K">>
PARAMS_DOT == <<"P", "A", "R", "A", "M", "S", ".">>
DuplexFalse ==
    <<"P", "A", "R", "A", "M", "S", ".", "d", "u", "p", "l", "e", "x",
      " ", "=", " ", "F", "a", "l", "s", "e">>
DuplexTrue ==
    <<"P", "A", "R", "A", "M", "S", ".", "d", "u", "p", "l", "e", "x",
      " ", "=", " ", "T", "r", "u", "e">>

\* The document that exists, and the one that does not.
DocPath == <<"a", ".", "p", "d", "f">>
MissingPath == <<"m", ".", "p", "d", "f">>
CoverPath == <<"c", ".", "p", "d", "f">>

\* The lines an index file is made of, as readlines() returns them.
EmptyLine == <<"\n">>
BlankLine == BLANK \o <<"\n">>
StopLine == STOP \o <<" ", "x", "\n">>
DividerLine == <<"@", " ", "T", "\n">>
DocLine == DocPath \o <<"\n">>
MissingLine == MissingPath \o <<"\n">>
DirectiveLine == <<"#", " ">> \o DuplexFalse \o <<"\n">>
CommentLine == <<"#", " ", "c", "\n">>

Lines ==
    {EmptyLine, BlankLine, StopLine, DividerLine, DocLine, MissingLine, DirectiveLine,
     CommentLine}

RECURSIVE SeqsUpTo(_, _)
SeqsUpTo(S, n) ==
    IF n = 0 THEN {<<>>}
    ELSE LET shorter == SeqsUpTo(S, n - 1)
         IN shorter \cup {Append(s, x) : s \in {t \in shorter : Len(t) = n - 1}, x \in S}

IndexFiles == SeqsUpTo(Lines, MaxLines)

\* ------------------------------------------------------------------- state
VARIABLES
    pc,                  \* where main() is
    index_file,          \* the lines of the index file
    args,                \* the parsed command line: duplex, cover
    fs,                  \* the file system: the page counts of the documents
    li,                  \* parse_index: the next line to read
    file_paths,          \* parse_index: the entries so far, then main's file_paths
    PARAMS,              \* the process-wide parameters
    first_page,          \* main: first_page
    output_pdf_with_toc, \* main: the final writer
    output_pdf,          \* main/collate_pdfs: the body writer
    toc,                 \* collate_pdfs: toc
    cur_page,            \* collate_pdfs: cur_page
    it                   \* collate_pdfs: the next item of iter_files

vars ==
    <<pc, index_file, args, fs, li, file_paths, PARAMS, first_page,
      output_pdf_with_toc, output_pdf, toc, cur_page, it>>

\* ------------------------------------------------------------ file system
exists(path) == path = DocPath \/ path = CoverPath

\* PdfReader(path).get_num_pages()
get_num_pages(path) ==
    IF path = DocPath THEN fs.doc ELSE IF path = CoverPath THEN fs.cover ELSE 0

\* PdfReader(path): the pages of the file, in order.
FilePage(path, i) == [kind |-> "file", content |-> path, idx |-> i, overlay |-> <<>>]

PdfReader(path) == [i \in 1..get_num_pages(path) |-> FilePage(path, i - 1)]

\* PdfWriter.add_blank_page()
BlankPage == [kind |-> "blank", content |-> <<>>, idx |-> 0, overlay |-> <<>>]

\* The blank page ensure_even_pages adds.
PadPage == [kind |-> "pad", content |-> <<>>, idx |-> 0, overlay |-> <<>>]

\* ----------------------------------------------------------- generic utils
\* append_pdf(output, new): every page of `new` is added, the count returned.
append_pdf(output, new) == [writer |-> output \o new, n |-> Len(new)]

\* resize_page: a new page of the page format with the page merged onto it.
resize_page(page) == [page EXCEPT !.kind = "resized"]

\* The em dash of the source is written "-" here and in TocLine.
get_pretty_name(file_path, replace_slashes) ==
    LET p1 == replace(file_path, <<".", "/">>, <<>>)
        p2 == IF replace_slashes THEN replace(p1, <<"/">>, <<" ", "-", " ">>) ELSE p1
    IN DropExtension(p2)

\* A variant that never pads.
ensure_even_pages_never(writer) == [writer |-> writer, n |-> 0]

ensure_even_pages(writer) ==
    IF PARAMS.duplex /\ Len(writer) % 2 = 1
    THEN [writer |-> Append(writer, PadPage), n |-> 1]
    ELSE [writer |-> writer, n |-> 0]

\* A variant that yields a missing file with an empty reader instead of skipping it.
RECURSIVE iter_files_yield_missing(_)
iter_files_yield_missing(paths) ==
    IF paths = <<>> THEN <<>>
    ELSE LET file_path == Head(paths)
             rest == iter_files_yield_missing(Tail(paths))
         IN IF startswith(file_path, <<"@">>)
            THEN <<[file_path |-> file_path, pdf_reader |-> None]>> \o rest
            ELSE IF file_path = <<>>
            THEN <<[file_path |-> None, pdf_reader |-> None]>> \o rest
            ELSE <<[file_path |-> file_path, pdf_reader |-> <<PdfReader(file_path)>>]>>
                 \o rest

\* iter_files: the (file_path, pdf_reader) pairs the generator yields.  A reader
\* is <<pages>>, no reader is None.
RECURSIVE iter_files(_)
iter_files(paths) ==
    IF paths = <<>> THEN <<>>
    ELSE LET file_path == Head(paths)
             rest == iter_files(Tail(paths))
         IN IF startswith(file_path, <<"@">>)
            THEN <<[file_path |-> file_path, pdf_reader |-> None]>> \o rest
            ELSE IF file_path = <<>>
            THEN <<[file_path |-> None, pdf_reader |-> None]>> \o rest
            ELSE IF ~exists(file_path)
            THEN rest
            ELSE <<[file_path |-> file_path, pdf_reader |-> <<PdfReader(file_path)>>]>>
                 \o rest

\* ------------------------------------------------------------------- index
\* exec(statement, {'PARAMS': PARAMS}, {}) for the assignments to PARAMS.duplex,
\* the only statements the index files of the model hold.
exec(statement, P) ==
    IF statement = DuplexFalse THEN [P EXCEPT !.duplex = FALSE]
    ELSE IF statement = DuplexTrue THEN [P EXCEPT !.duplex = TRUE]
    ELSE P

\* The body of parse_index's loop for a stripped line that is neither a stop
\* line nor empty.
parse_line(line, paths, P) ==
    LET paths1 == IF line = BLANK THEN Append(paths, <<>>) ELSE paths
    IN IF ~startswith(line, <<"#">>)
       THEN [file_paths |-> Append(paths1, line), PARAMS |-> P]
       ELSE IF contains(line, PARAMS_DOT)
       THEN [file_paths |-> paths1, PARAMS |-> exec(strip(Tail(line)), P)]
       ELSE [file_paths |-> paths1, PARAMS |-> P]

\* --------------------------------------------------------------------- TOC
\* f"p. {n:d} -- {title}"
TocLine(n, title) == <<"p. ", n, " - ", title>>

\* create_toc on a fresh canvas: one page listing the entries.
TocPage(entries) ==
    [kind |-> "toc", content |-> <<>>, idx |-> 0, overlay |-> <<>>, entries |-> entries]

\* create_divider on a fresh canvas: one page showing the title.
DividerPage(title) == [kind |-> "divider", content |-> title, idx |-> 0, overlay |-> <<>>]

\* ----------------------------------------------------------------- overlay
\* add_overlay: the overlay f"p. {n} {'--' if name else ''} {name}" is merged.
add_overlay(page, name, n) ==
    [page EXCEPT !.overlay = Append(@, [n |-> n, name |-> name])]

\* ------------------------------------------------------------ collate_pdfs
\* The three branches of collate_pdfs's loop body, on (output_pdf, toc, cur_page).
\* A variant that forgets `cur_page += 1`.
collate_blank_no_count(out, t, cp) ==
    [output_pdf |-> Append(out, BlankPage), toc |-> t, cur_page |-> cp]

collate_blank(out, t, cp) ==
    [output_pdf |-> Append(out, BlankPage), toc |-> t, cur_page |-> cp + 1]

\* A variant that drops the return value of ensure_even_pages.
collate_divider_pad_not_counted(file_path, out, t, cp) ==
    LET toc_entry == strip(Tail(file_path))
        padded == ensure_even_pages(out)
        n == cp + 1
        page == add_overlay(DividerPage(toc_entry), <<>>, n)
    IN [output_pdf |-> Append(padded.writer, page),
        toc |-> t \o <<<<>>, TocLine(n, toc_entry)>>,
        cur_page |-> cp + 1]

\* A variant that omits the spacer line of the TOC.
collate_divider_no_spacer(file_path, out, t, cp) ==
    LET toc_entry == strip(Tail(file_path))
        padded == ensure_even_pages(out)
        cp1 == cp + padded.n
        n == cp1 + 1
        page == add_overlay(DividerPage(toc_entry), <<>>, n)
    IN [output_pdf |-> Append(padded.writer, page),
        toc |-> Append(t, TocLine(n, toc_entry)),
        cur_page |-> cp1 + 1]

\* A variant whose TOC entry keeps the number computed before the padding.
collate_divider_stale_toc(file_path, out, t, cp) ==
    LET toc_entry == strip(Tail(file_path))
        padded == ensure_even_pages(out)
        cp1 == cp + padded.n
        n == cp1 + 1
        page == add_overlay(DividerPage(toc_entry), <<>>, n)
    IN [output_pdf |-> Append(padded.writer, page),
        toc |-> t \o <<<<>>, TocLine(cp + 1, toc_entry)>>,
        cur_page |-> cp1 + 1]

collate_divider(file_path, out, t, cp) ==
    LET toc_entry == strip(Tail(file_path))
        padded == ensure_even_pages(out)
        cp1 == cp + padded.n
        n == cp1 + 1
        page == add_overlay(DividerPage(toc_entry), <<>>, n)
    IN [output_pdf |-> Append(padded.writer, page),
        toc |-> t \o <<<<>>, TocLine(n, toc_entry)>>,
        cur_page |-> cp1 + 1]

\* A variant that adds the pages of a document last page first.
collate_document_reversed(file_path, pdf_reader, out, t, cp) ==
    LET pretty_name == get_pretty_name(file_path, TRUE)
        reader == pdf_reader[1]
        num_pages == Len(reader)
        n == cp + 1
    IN [output_pdf |->
            out \o [i \in 1..num_pages |->
                       add_overlay(resize_page(reader[num_pages + 1 - i]), pretty_name,
                                   cp + (i - 1) + 1)],
        toc |-> Append(t, TocLine(n, pretty_name)),
        cur_page |-> cp + num_pages]

collate_document(file_path, pdf_reader, out, t, cp) ==
    LET pretty_name == get_pretty_name(file_path, TRUE)
        reader == pdf_reader[1]
        num_pages == Len(reader)
        n == cp + 1
    IN [output_pdf |->
            out \o [i \in 1..num_pages |->
                       add_overlay(resize_page(reader[i]), pretty_name, cp + (i - 1) + 1)],
        toc |-> Append(t, TocLine(n, pretty_name)),
        cur_page |-> cp + num_pages]

\* collate_pdfs as a function: the loop run over every item of iter_files.
RECURSIVE collate_items(_, _, _, _)
collate_items(items, out, t, cp) ==
    IF items = <<>> THEN [output_pdf |-> out, toc |-> t, cur_page |-> cp]
    ELSE LET item == Head(items)
             r == IF item.file_path = <<>>
                  THEN collate_blank(out, t, cp)
                  ELSE IF item.pdf_reader = None
                  THEN collate_divider(item.file_path, out, t, cp)
                  ELSE collate_document(item.file_path, item.pdf_reader, out, t, cp)
         IN collate_items(Tail(items), r.output_pdf, r.toc, r.cur_page)

collate_pdfs(paths, first) == collate_items(iter_files(paths), <<>>, <<>>, first)

\* -------------------------------------------------------------------- Init
Init ==
    /\ pc = "parse"
    /\ index_file \in IndexFiles
    /\ \E d \in BOOLEAN, c \in 0..MaxCover, k \in 0..MaxPages :
          /\ args = [duplex |-> d, cover |-> IF c = 0 THEN <<>> ELSE CoverPath]
          /\ fs = [doc |-> k, cover |-> c]
    /\ li = 1
    /\ file_paths = <<>>
    /\ PARAMS = [duplex |-> TRUE, cover_file |-> <<>>]
    /\ first_page = 1
    /\ output_pdf_with_toc = <<>>
    /\ output_pdf = <<>>
    /\ toc = <<>>
    /\ cur_page = 1
    /\ it = 1

\* ------------------------------------------------------------- parse_index
mainVars == <<first_page, output_pdf_with_toc, output_pdf, toc, cur_page, it>>

\* A variant that skips the stop line and reads on.
ParseStop_continue ==
    /\ pc = "parse"
    /\ li <= Len(index_file)
    /\ startswith(strip(index_file[li]), STOP)
    /\ li' = li + 1
    /\ UNCHANGED <<pc, index_file, args, fs, file_paths, PARAMS, mainVars>>

\* `if line.startswith("# STOP"): break`
ParseStop ==
    /\ pc = "parse"
    /\ li <= Len(index_file)
    /\ startswith(strip(index_file[li]), STOP)
    /\ pc' = "args"
    /\ UNCHANGED <<index_file, args, fs, li, file_paths, PARAMS, mainVars>>

\* `if not line: continue`
ParseSkipEmpty ==
    /\ pc = "parse"
    /\ li <= Len(index_file)
    /\ ~startswith(strip(index_file[li]), STOP)
    /\ strip(index_file[li]) = <<>>
    /\ li' = li + 1
    /\ UNCHANGED <<pc, index_file, args, fs, file_paths, PARAMS, mainVars>>

ParseLine ==
    /\ pc = "parse"
    /\ li <= Len(index_file)
    /\ ~startswith(strip(index_file[li]), STOP)
    /\ strip(index_file[li]) # <<>>
    /\ LET r == parse_line(strip(index_file[li]), file_paths, PARAMS)
       IN /\ file_paths' = r.file_paths
          /\ PARAMS' = r.PARAMS
    /\ li' = li + 1
    /\ UNCHANGED <<pc, index_file, args, fs, mainVars>>

\* The lines are exhausted: `return file_paths`.
ParseEnd ==
    /\ pc = "parse"
    /\ li > Len(index_file)
    /\ pc' = "args"
    /\ UNCHANGED <<index_file, args, fs, li, file_paths, PARAMS, mainVars>>

\* -------------------------------------------------------------------- main
\* `PARAMS.duplex = args.duplex` (no -f in the model's command lines).
MainArgs ==
    /\ pc = "args"
    /\ PARAMS' = [PARAMS EXCEPT !.duplex = args.duplex]
    /\ pc' = "cover"
    /\ UNCHANGED <<index_file, args, fs, li, file_paths, mainVars>>

\* The cover, then the call of collate_pdfs up to its loop.
MainCover ==
    /\ pc = "cover"
    /\ LET cover_file == IF args.cover # <<>> THEN args.cover ELSE PARAMS.cover_file
           added == append_pdf(<<>>, PdfReader(cover_file))
       IN IF cover_file # <<>>
          THEN /\ first_page' = 1 + added.n
               /\ output_pdf_with_toc' = ensure_even_pages(added.writer).writer
          ELSE /\ first_page' = 1
               /\ output_pdf_with_toc' = <<>>
    /\ output_pdf' = <<>>
    /\ toc' = <<>>
    /\ cur_page' = first_page'
    /\ it' = 1
    /\ pc' = "collate"
    /\ UNCHANGED <<index_file, args, fs, li, file_paths, PARAMS>>

CollateBlank ==
    /\ pc = "collate"
    /\ it <= Len(iter_files(file_paths))
    /\ LET item == iter_files(file_paths)[it]
       IN /\ item.file_path = <<>>
          /\ LET r == collate_blank(output_pdf, toc, cur_page)
             IN /\ output_pdf' = r.output_pdf
                /\ toc' = r.toc
                /\ cur_page' = r.cur_page
    /\ it' = it + 1
    /\ UNCHANGED <<pc, index_file, args, fs, li, file_paths, PARAMS, first_page,
                   output_pdf_with_toc>>

CollateDivider ==
    /\ pc = "collate"
    /\ it <= Len(iter_files(file_paths))
    /\ LET item == iter_files(file_paths)[it]
       IN /\ item.file_path # <<>>
          /\ item.pdf_reader = None
          /\ LET r == collate_divider(item.file_path, output_pdf, toc, cur_page)
             IN /\ output_pdf' = r.output_pdf
                /\ toc' = r.toc
                /\ cur_page' = r.cur_page
    /\ it' = it + 1
    /\ UNCHANGED <<pc, index_file, args, fs, li, file_paths, PARAMS, first_page,
                   output_pdf_with_toc>>

CollateDocument ==
    /\ pc = "collate"
    /\ it <= Len(iter_files(file_paths))
    /\ LET item == iter_files(file_paths)[it]
       IN /\ item.file_path # <<>>
          /\ item.pdf_reader # None
          /\ LET r == collate_document(item.file_path, item.pdf_reader,
                                       output_pdf, toc, cur_page)
             IN /\ output_pdf' = r.output_pdf
                /\ toc' = r.toc
                /\ cur_page' = r.cur_page
    /\ it' = it + 1
    /\ UNCHANGED <<pc, index_file, args, fs, li, file_paths, PARAMS, first_page,
                   output_pdf_with_toc>>

\* iter_files is exhausted: `return toc`.
CollateReturn ==
    /\ pc = "collate"
    /\ it > Len(iter_files(file_paths))
    /\ pc' = "toc"
    /\ UNCHANGED <<index_file, args, fs, li, file_paths, PARAMS, mainVars>>

\* The TOC page is rendered and appended, the writer padded.
MainToc ==
    /\ pc = "toc"
    /\ LET toc_pdf == <<TocPage(toc)>>
       IN output_pdf_with_toc' =
              ensure_even_pages(append_pdf(output_pdf_with_toc, toc_pdf).writer).writer
    /\ pc' = "body"
    /\ UNCHANGED <<index_file, args, fs, li, file_paths, PARAMS, first_page,
                   output_pdf, toc, cur_page, it>>

\* The body is appended and the final writer is written to disk.
MainBody ==
    /\ pc = "body"
    /\ output_pdf_with_toc' = append_pdf(output_pdf_with_toc, output_pdf).writer
    /\ pc' = "done"
    /\ UNCHANGED <<index_file, args, fs, li, file_paths, PARAMS, first_page,
                   output_pdf, toc, cur_page, it>>

Next ==
    \/ ParseStop
    \/ ParseSkipEmpty
    \/ ParseLine
    \/ ParseEnd
    \/ MainArgs
    \/ MainCover
    \/ CollateBlank
    \/ CollateDivider
    \/ CollateDocument
    \/ CollateReturn
    \/ MainToc
    \/ MainBody

Spec == Init /\ [][Next]_vars

\* ------------------------------------------------------------------ claims
\* collate_pdfs has returned.
Collated == pc \in {"toc", "body", "done"}

\* main has applied the command line.
ArgsApplied == pc \in {"cover", "collate", "toc", "body", "done"}

IsPad(page) == page.kind = "pad"
NotPad(page) == page.kind # "pad"
HasOverlay(page) == page.overlay # <<>>
IsBlankEntry(path) == path = <<>>
IsDividerEntry(path) == path # <<>> /\ path[1] = "@"
IsDocumentEntry(path) == path # <<>> /\ path[1] # "@"
IsPresent(path) == ~IsDocumentEntry(path) \/ exists(path)

Count(seq, Test(_)) == Len(SelectSeq(seq, Test))

\* What a page shows, without its overlay.
Shown(page) == [kind |-> page.kind, content |-> page.content, idx |-> page.idx]

\* The title a TOC entry shows for the first page of an entry.
TitleOf(page) ==
    IF page.kind = "divider" THEN page.content ELSE get_pretty_name(page.content, TRUE)

IsFirstPage(page) == page.kind = "divider" \/ (page.kind = "resized" /\ page.idx = 0)

\* The sum of the page counts of the documents of the index that exist.
RECURSIVE SumPages(_)
SumPages(paths) ==
    IF paths = <<>> THEN 0
    ELSE (IF IsDocumentEntry(Head(paths)) /\ exists(Head(paths))
          THEN get_num_pages(Head(paths)) ELSE 0) + SumPages(Tail(paths))

\* The lines of the index file before its first stop line.
FirstStop ==
    LET stops == {i \in 1..Len(index_file) :
                     LET l == strip(index_file[i])
                     IN Len(l) >= 6 /\ SubSeq(l, 1, 6) = <<"#", " ", "S", "T", "O", "P">>}
    IN IF stops = {} THEN Len(index_file) + 1
       ELSE CHOOSE i \in stops : \A j \in stops : i <= j

BeforeStop == SubSeq(index_file, 1, FirstStop - 1)

\* The entries and parameters that reading every one of `lines` gives.
RECURSIVE ReadAll(_, _, _)
ReadAll(lines, paths, P) ==
    IF lines = <<>> THEN [file_paths |-> paths, PARAMS |-> P]
    ELSE IF strip(Head(lines)) = <<>> THEN ReadAll(Tail(lines), paths, P)
    ELSE LET r == parse_line(strip(Head(lines)), paths, P)
         IN ReadAll(Tail(lines), r.file_paths, r.PARAMS)

DefaultPARAMS == [duplex |-> TRUE, cover_file |-> <<>>]

\* C1: at the end of makepdf, the number in the overlay of every page of the
\* final document is the 1-based position of that page in the final document,
\* and the TOC lists the first page of every section under that position.
C1_PageNumbersArePositions ==
    pc = "done" =>
        \A p \in 1..Len(output_pdf_with_toc) :
            LET page == output_pdf_with_toc[p]
            IN /\ HasOverlay(page) => page.overlay[1].n = p
               /\ IsFirstPage(page) =>
                      \E i \in 1..Len(toc) : toc[i] = TocLine(p, TitleOf(page))

\* C1, without duplex: the same statement for the runs without -d.
C1_WithoutDuplex == ~args.duplex => C1_PageNumbersArePositions

C1_WithoutDuplexWitness ==
    /\ pc = "done"
    /\ ~args.duplex
    /\ args.cover # <<>>
    /\ \E p \in 1..Len(output_pdf_with_toc) : output_pdf_with_toc[p].kind = "divider"
    /\ \E p \in 1..Len(output_pdf_with_toc) : output_pdf_with_toc[p].kind = "resized"

\* C2: once collate_pdfs has returned, the body without its padding pages is
\* the concatenation, in index order, of one blank page per Blank entry, one
\* divider page per Divider entry and the pages 0..k-1 of every Document entry.
RECURSIVE EntryPages(_)
EntryPages(paths) ==
    IF paths = <<>> THEN <<>>
    ELSE LET path == Head(paths)
             pages ==
                 IF IsBlankEntry(path)
                 THEN <<[kind |-> "blank", content |-> <<>>, idx |-> 0]>>
                 ELSE IF IsDividerEntry(path)
                 THEN <<[kind |-> "divider", content |-> strip(Tail(path)), idx |-> 0]>>
                 ELSE [i \in 1..get_num_pages(path) |->
                          [kind |-> "resized", content |-> path, idx |-> i - 1]]
         IN pages \o EntryPages(Tail(paths))

C2_OrderPreserved ==
    Collated =>
        LET body == SelectSeq(output_pdf, NotPad)
        IN [j \in 1..Len(body) |-> Shown(body[j])] = EntryPages(file_paths)

C2_Witness ==
    /\ pc = "toc"
    /\ fs.doc = 2
    /\ Len(file_paths) = 3
    /\ \E i \in 1..3 : file_paths[i] = DocPath
    /\ \E j \in 1..Len(output_pdf) : IsPad(output_pdf[j])

\* C3: once collate_pdfs has returned, the body, the overlays, the TOC and the
\* counter are those collate_pdfs gives for the index with the paths that do
\* not exist removed.
C3_SkipOnMissing ==
    Collated =>
        LET r == collate_pdfs(SelectSeq(file_paths, IsPresent), first_page)
        IN /\ output_pdf = r.output_pdf
           /\ toc = r.toc
           /\ cur_page = r.cur_page

C3_Witness ==
    /\ pc = "done"
    /\ Len(file_paths) = 3
    /\ file_paths[2] = MissingPath
    /\ file_paths[3] = DocPath
    /\ fs.doc > 0

\* C4: with duplex on, the final writer holds an even number of pages after the
\* cover step and after the TOC step, and every divider is at an odd position
\* of the body and of the final document; with duplex off no writer holds a
\* padding page.
C4_DuplexParity ==
    ArgsApplied =>
        /\ PARAMS.duplex /\ pc \in {"collate", "toc", "body"} =>
               Len(output_pdf_with_toc) % 2 = 0
        /\ PARAMS.duplex =>
               /\ \A j \in 1..Len(output_pdf) :
                      output_pdf[j].kind = "divider" => j % 2 = 1
               /\ \A p \in 1..Len(output_pdf_with_toc) :
                      output_pdf_with_toc[p].kind = "divider" => p % 2 = 1
        /\ ~PARAMS.duplex =>
               /\ \A j \in 1..Len(output_pdf) : ~IsPad(output_pdf[j])
               /\ \A p \in 1..Len(output_pdf_with_toc) : ~IsPad(output_pdf_with_toc[p])

C4_Witness ==
    /\ pc = "done"
    /\ PARAMS.duplex
    /\ fs.cover = 1
    /\ \E j \in 2..Len(output_pdf) :
           output_pdf[j].kind = "divider" /\ IsPad(output_pdf[j - 1])
    /\ IsPad(output_pdf_with_toc[2])
    /\ IsPad(output_pdf_with_toc[4])

\* C5: once collate_pdfs has returned, the TOC is, in index order, one entry per
\* existing Document and, per Divider, an empty line followed by its entry;
\* it holds d + v non-empty entries and v empty ones.
IsSpacer(line) == Len(line) = 0
IsEntry(line) == Len(line) > 0
IsExistingDocument(path) == IsDocumentEntry(path) /\ exists(path)

RECURSIVE TocTitles(_)
TocTitles(paths) ==
    IF paths = <<>> THEN <<>>
    ELSE LET path == Head(paths)
             lines ==
                 IF IsDividerEntry(path)
                 THEN <<[spacer |-> TRUE, title |-> <<>>],
                        [spacer |-> FALSE, title |-> strip(Tail(path))]>>
                 ELSE IF IsExistingDocument(path)
                 THEN <<[spacer |-> FALSE, title |-> get_pretty_name(path, TRUE)]>>
                 ELSE <<>>
         IN lines \o TocTitles(Tail(paths))

C5_TocComplete ==
    Collated =>
        /\ [i \in 1..Len(toc) |->
               IF IsSpacer(toc[i]) THEN [spacer |-> TRUE, title |-> <<>>]
               ELSE [spacer |-> FALSE, title |-> toc[i][4]]]
           = TocTitles(file_paths)
        /\ Count(toc, IsEntry)
           = Count(file_paths, IsExistingDocument) + Count(file_paths, IsDividerEntry)
        /\ Count(toc, IsSpacer) = Count(file_paths, IsDividerEntry)

C5_Witness ==
    /\ pc = "toc"
    /\ PARAMS.duplex
    /\ Count(file_paths, IsExistingDocument) = 1
    /\ Count(file_paths, IsDividerEntry) = 1
    /\ Count(file_paths, IsBlankEntry) = 1
    /\ \E j \in 1..Len(output_pdf) : IsPad(output_pdf[j])
    /\ Len(toc) = 3

\* C6: once collate_pdfs has returned, the counter is
\* first_page - 1 + (sum of the documents' page counts) + v + k.
C6_CounterAsClaimed ==
    Collated =>
        cur_page = first_page - 1 + SumPages(file_paths)
                   + Count(file_paths, IsDividerEntry) + Count(file_paths, IsBlankEntry)

\* C6, amended: once collate_pdfs has returned, the counter is
\* first_page + (sum of the documents' page counts) + v + k + the number of
\* duplex padding pages in the body.
C6_CounterAmended ==
    Collated =>
        cur_page = first_page + SumPages(file_paths)
                   + Count(file_paths, IsDividerEntry) + Count(file_paths, IsBlankEntry)
                   + Count(output_pdf, IsPad)

C6_Witness ==
    /\ pc = "toc"
    /\ PARAMS.duplex
    /\ first_page = 2
    /\ SumPages(file_paths) = 2
    /\ Count(file_paths, IsDividerEntry) = 1
    /\ Count(file_paths, IsBlankEntry) = 1
    /\ Count(output_pdf, IsPad) = 1

\* C7: parse_index never reads past the first stop line, and what it returns
\* (the entries, and the parameters it leaves) is what reading the lines
\* before the first stop line gives.
C7_StopDirective ==
    /\ pc = "parse" => li <= FirstStop
    /\ pc = "args" =>
           LET r == ReadAll(BeforeStop, <<>>, DefaultPARAMS)
           IN /\ file_paths = r.file_paths
              /\ PARAMS = r.PARAMS

C7_Witness ==
    /\ pc = "args"
    /\ Len(index_file) = 3
    /\ FirstStop = 2
    /\ index_file[1] \in {DocLine, DividerLine, BlankLine}
    /\ index_file[3] \in {DocLine, DirectiveLine}
    /\ Len(file_paths) = 1
    /\ PARAMS.duplex

\* C8: in every step of collate_pdfs that adds a TOC entry and pages, the
\* number of the TOC entry is the number in the overlay of the first page the
\* step adds after its padding.
C8_Step ==
    (pc = "collate" /\ Len(toc') > Len(toc)) =>
        LET added == SelectSeq(SubSeq(output_pdf', Len(output_pdf) + 1, Len(output_pdf')),
                               NotPad)
        IN added # <<>> =>
               /\ HasOverlay(added[1])
               /\ added[1].overlay[1].n = toc'[Len(toc')][2]

C9_RunningCounter ==
    pc \in {"collate", "toc", "body", "done"} =>
        /\ cur_page = first_page + Len(output_pdf)
        /\ \A j \in 1..Len(output_pdf) :
               HasOverlay(output_pdf[j]) => output_pdf[j].overlay[1].n = first_page + j

C9_Witness ==
    /\ pc = "collate"
    /\ it = 4
    /\ PARAMS.duplex
    /\ first_page = 2
    /\ Len(output_pdf) = 4
    /\ output_pdf[1].kind = "blank"
    /\ IsPad(output_pdf[2])
    /\ output_pdf[3].kind = "divider"
    /\ output_pdf[4].kind = "resized"

\* C10: the duplex value in effect after the command line is applied is TRUE
\* when -d is given, and otherwise the value parse_index left (the index's
\* directive, or else the default).
C10_DuplexPrecedence ==
    ArgsApplied =>
        PARAMS.duplex =
            IF args.duplex THEN TRUE
            ELSE ReadAll(BeforeStop, <<>>, DefaultPARAMS).PARAMS.duplex

====
